---- MODULE Spec2Model ----
(***************************************************************************)
(* A model of compilegpt's src/main.py: the POST /compile-wheel handler    *)
(* (resolve the source URL on the index, download and extract it,          *)
(* scaffold README.md and setup.py, schedule the build), the background    *)
(* build task compile_and_build, and the three read endpoints, all over    *)
(* one shared filesystem tree and one process-wide working directory.      *)
(*                                                                         *)
(* A string that the code inspects character by character (a URL, an       *)
(* href) is a sequence of one-character strings.  A path is a sequence of  *)
(* segments.  A file's content is a sequence of lines, each a sequence of  *)
(* strings.                                                                *)
(***************************************************************************)
EXTENDS Integers, Sequences, FiniteSets, TLC

\* ------------------------------------------------------------------ bounds

\* Number of POST /compile-wheel requests of one run.
MaxRequests == 2
\* Longest list of anchors on an index page.
MaxAnchors == 2

\* ------------------------------------------------------- inputs of the model

Projects == {"p", "q"}
Variants == {1, 2}

\* The index page's candidate hrefs: two that end in a recognised suffix,
\* two that do not ("zip" is shorter than ".zip").
HrefTarGz == <<"a", ".", "t", "a", "r", ".", "g", "z">>
HrefZip == <<"b", ".", "z", "i", "p">>
HrefWhl == <<"c", ".", "w", "h", "l">>
HrefShort == <<"z", "i", "p">>
Hrefs == {HrefTarGz, HrefZip, HrefWhl, HrefShort}

\* An anchor is <<>> (an <a> without href) or <<href>>.
Anchors == {<<>>} \cup {<<h>> : h \in Hrefs}

RECURSIVE SeqsUpTo(_, _)
SeqsUpTo(S, n) ==
  IF n = 0 THEN {<<>>}
  ELSE LET shorter == SeqsUpTo(S, n - 1)
       IN shorter \cup {Append(s, x) : s \in {t \in shorter : Len(t) = n - 1}, x \in S}

Pages == SeqsUpTo(Anchors, MaxAnchors)

\* Statuses the index and the download server answer with.
IndexStatuses == {200, 404}
DownloadStatuses == {200, 503}

\* The archives the download server may return: entries relative to the
\* extraction directory.  A nested source tree, and a flat archive that
\* also carries its own README.md, setup.py and a prebuilt dist/ entry.
ArchiveText == << <<"archive">> >>
ArchiveNested == [x \in {<<"src", "mod.py">>} |-> ArchiveText]
ArchiveFlat ==
  [x \in {<<"src", "mod.py">>, <<"README.md">>, <<"setup.py">>, <<"dist", "old.whl">>}
     |-> ArchiveText]
Archives == {ArchiveNested, ArchiveFlat}

\* ------------------------------------------------------------------- state

VARIABLES
  files,      \* the regular files: path -> content
  dirs,       \* the directories: a set of paths
  cwd,        \* the process-wide working directory (os.chdir)
  nreq,       \* number of compile-wheel requests received
  req,        \* the compile-wheel request the event loop is handling
  responses,  \* request id -> status sent (0: none yet)
  tasks,      \* request id -> its background build task
  last        \* what the most recent read request returned

vars == <<files, dirs, cwd, nreq, req, responses, tasks, last>>

\* ------------------------------------------------------------------- paths

Root == <<>>
DataRoot == <<"mnt", "data">>

\* project_dir = f"/mnt/data/{project_name}"
ProjectDir(name) == DataRoot \o <<name>>

\* os.path.join of relative components.
Join(a, b) == a \o b

Prefixes(path) == {SubSeq(path, 1, n) : n \in 0..Len(path)}

Parent(path) == IF path = <<>> THEN <<>> ELSE SubSeq(path, 1, Len(path) - 1)

IsPrefix(a, b) == Len(a) <= Len(b) /\ SubSeq(b, 1, Len(a)) = a

\* Kernel path resolution of an absolute path: every component but the last
\* must be an existing directory, ".." steps to the parent.  The result is
\* the canonical path, or [ok |-> FALSE] when a component is missing.
RECURSIVE Walk(_, _, _, _)
Walk(fs, ds, cur, rest) ==
  IF cur \notin ds THEN [ok |-> FALSE, path |-> <<>>]
  ELSE IF rest = <<>> THEN [ok |-> TRUE, path |-> cur]
  ELSE LET seg == Head(rest)
           nxt == IF seg = ".." THEN Parent(cur) ELSE Append(cur, seg)
       IN IF Len(rest) = 1 /\ nxt \in DOMAIN fs
          THEN [ok |-> TRUE, path |-> nxt]
          ELSE Walk(fs, ds, nxt, Tail(rest))

\* os.path.exists(path)
Exists(fs, ds, path) == Walk(fs, ds, Root, path).ok

\* os.listdir(path): the names directly under a directory.
ListDir(fs, ds, path) ==
  {x[Len(path) + 1] : x \in {y \in (DOMAIN fs) \cup ds : Parent(y) = path /\ y # path}}

\* os.makedirs(path, exist_ok=True)
MakeDirs(ds, path) == ds \cup Prefixes(path)

\* open(path, "w").write(content)
WriteFile(fs, path, content) ==
  [x \in (DOMAIN fs) \cup {path} |-> IF x = path THEN content ELSE fs[x]]

\* -------------------------------------------------------------- strings

\* str.endswith
EndsWith(s, suffix) ==
  /\ Len(s) >= Len(suffix)
  /\ SubSeq(s, Len(s) - Len(suffix) + 1, Len(s)) = suffix

TarGzSuffix == <<".", "t", "a", "r", ".", "g", "z">>
ZipSuffix == <<".", "z", "i", "p">>

\* ------------------------------------------------------------- metadata

\* class ProjectMetadata: the submitted body.  Two variants per name differ
\* in version and long_description.
Metadata(name, v) ==
  [name |-> name,
   version |-> IF v = 1 THEN "0.1.0" ELSE "0.2.0",
   author |-> "author",
   author_email |-> "author@example.org",
   description |-> "description",
   long_description |-> IF v = 1 THEN "long description 1" ELSE "long description 2",
   classifiers |-> <<"classifier">>,
   python_requires |-> ">=3.8",
   packages |-> <<"pkg">>,
   install_requires |-> <<"dep">>]

\* "p" is submitted in both variants, "q" in one.
Metadatas == {Metadata("p", v) : v \in Variants} \cup {Metadata("q", 1)}

\* ----------------------------------------------------------- SourceResolver

NoUrl == <<>>

\* raise HTTPException(status_code=404, ...)
ResolveNotFound == [ok |-> FALSE, exc |-> "HTTPException", status |-> 404, url |-> NoUrl]

\* a.get('href') is None for an anchor without href, and None.endswith raises
\* AttributeError, which no handler catches: the framework answers 500.
ResolveAttributeError ==
  [ok |-> FALSE, exc |-> "AttributeError", status |-> 500, url |-> NoUrl]

\* for a in soup.find_all('a'): the loop from anchor i on.
RECURSIVE ScanAnchors(_, _)
ScanAnchors(page, i) ==
  IF i > Len(page) THEN ResolveNotFound
  ELSE LET a == page[i]
       IN IF a = <<>> THEN ResolveAttributeError
          ELSE IF EndsWith(a[1], TarGzSuffix) \/ EndsWith(a[1], ZipSuffix)
               THEN [ok |-> TRUE, exc |-> "none", status |-> 200, url |-> a[1]]
               ELSE ScanAnchors(page, i + 1)

get_pypi_source_url(status, page) ==
  IF status = 200 THEN ScanAnchors(page, 1) ELSE ResolveNotFound

\* ------------------------------------------------------------ SourceFetcher

\* tar.extractall(path=dest) / z.extractall(path=dest): every entry is written
\* under dest, replacing a file of the same name, with its directories.
ExtractAll(archive, dest, fs, ds) ==
  LET new == {Join(dest, e) : e \in DOMAIN archive}
  IN [files |-> [x \in (DOMAIN fs) \cup new |->
                  IF x \in new THEN archive[SubSeq(x, Len(dest) + 1, Len(x))] ELSE fs[x]],
      dirs |-> ds \cup UNION {Prefixes(Parent(x)) : x \in new}]

download_source_extract_first(url, dest, status, archive, fs, ds) ==
  LET ex == ExtractAll(archive, dest, fs, ds)
  IN [ok |-> status = 200, status |-> status, files |-> ex.files, dirs |-> ex.dirs]

download_source(url, dest, status, archive, fs, ds) ==
  IF status = 200
  THEN IF EndsWith(url, TarGzSuffix) \/ EndsWith(url, ZipSuffix)
       THEN LET ex == ExtractAll(archive, dest, fs, ds)
            IN [ok |-> TRUE, status |-> 200, files |-> ex.files, dirs |-> ex.dirs]
       ELSE [ok |-> FALSE, status |-> 400, files |-> fs, dirs |-> ds]
  ELSE [ok |-> FALSE, status |-> status, files |-> fs, dirs |-> ds]

\* --------------------------------------------------------- ProjectScaffolder

ReadmePath(dir) == Join(dir, <<"README.md">>)
SetupPath(dir) == Join(dir, <<"setup.py">>)

\* f.write(metadata.long_description)
ReadmeContent(metadata) == << <<metadata.long_description>> >>

\* The setup.py template, one line per interpolated keyword argument.
SetupContent(metadata, source_url) ==
  << <<"name", metadata.name>>,
     <<"version", metadata.version>>,
     <<"packages", "find_packages()">>,
     <<"install_requires">> \o metadata.install_requires,
     <<"author", metadata.author>>,
     <<"author_email", metadata.author_email>>,
     <<"description", metadata.description>>,
     <<"long_description", "open(README.md).read()">>,
     <<"url">> \o source_url,
     <<"classifiers">> \o metadata.classifiers,
     <<"python_requires", metadata.python_requires>> >>

scaffold_readme_overwrite(dir, metadata, fs, ds) ==
  WriteFile(fs, ReadmePath(dir), ReadmeContent(metadata))

\* if not os.path.exists(readme_file): write it
scaffold_readme(dir, metadata, fs, ds) ==
  IF ~Exists(fs, ds, ReadmePath(dir))
  THEN WriteFile(fs, ReadmePath(dir), ReadmeContent(metadata))
  ELSE fs

\* if not os.path.exists(setup_file): write it
scaffold_setup(dir, metadata, source_url, fs, ds) ==
  IF ~Exists(fs, ds, SetupPath(dir))
  THEN WriteFile(fs, SetupPath(dir), SetupContent(metadata, source_url))
  ELSE fs

\* The README step, then the setup.py step.
scaffold(dir, metadata, source_url, fs, ds) ==
  scaffold_setup(dir, metadata, source_url, scaffold_readme(dir, metadata, fs, ds), ds)

\* --------------------------------------------------------------- BuildRunner

\* The file names the build tool gives its outputs, from the name that the
\* setup.py of its working directory declares.
DeclaredName(content) ==
  IF \E i \in 1..Len(content) : content[i][1] = "name"
  THEN content[CHOOSE i \in 1..Len(content) : content[i][1] = "name"][2]
  ELSE "unknown"

SdistName(name) ==
  CASE name = "p" -> "p.tar.gz" [] name = "q" -> "q.tar.gz" [] OTHER -> "unknown.tar.gz"

WheelName(name) ==
  CASE name = "p" -> "p.whl" [] name = "q" -> "q.whl" [] OTHER -> "unknown.whl"

SetupOutcomes == {"ok", "fail", "fail_after_sdist"}

\* python setup.py sdist bdist_wheel, run in directory wd: the tool reads
\* wd/setup.py and writes wd/dist/.  It runs sdist, then bdist_wheel, and
\* exits nonzero as soon as one fails: "fail_after_sdist" has written the sdist.
RunSetupPy(wd, outcome, fs, ds) ==
  IF SetupPath(wd) \notin DOMAIN fs \/ outcome = "fail"
  THEN [exit |-> 1, files |-> fs, dirs |-> ds, written |-> {}]
  ELSE LET name == DeclaredName(fs[SetupPath(wd)])
           dist == Join(wd, <<"dist">>)
           sdist == Append(dist, SdistName(name))
           wheel == Append(dist, WheelName(name))
           out == IF outcome = "ok" THEN {sdist, wheel} ELSE {sdist}
       IN [exit |-> IF outcome = "ok" THEN 0 ELSE 1,
           files |-> [x \in (DOMAIN fs) \cup out |->
                       IF x \in out THEN << <<"built", name>> >> ELSE fs[x]],
           dirs |-> ds \cup {dist},
           written |-> out]

\* n counts the tasks that the request has put on its BackgroundTasks.
NoTask == [n |-> 0, pc |-> "none", dir |-> <<>>, steps |-> <<>>, added |-> {},
           log |-> <<>>, raised |-> FALSE]

\* background_tasks.add_task(compile_and_build, project_dir)
add_task_dropped(ts, id, project_dir) == ts

add_task(ts, id, project_dir) ==
  [ts EXCEPT ![id] = [@ EXCEPT !.n = @ + 1, !.pc = "queued", !.dir = project_dir]]

\* os.chdir(project_dir); logging.info("Starting build process ...")
build_start(task) ==
  [task EXCEPT !.pc = "pip", !.log = Append(@, "starting")]

\* subprocess.run(["pip", "install", "setuptools", "wheel"]) without check=True
build_pip_unchecked(task, wd, exit) ==
  [task EXCEPT !.steps = Append(@, [cmd |-> "pip", cwd |-> wd, exit |-> exit]),
               !.pc = "setup"]

\* subprocess.run(["pip", "install", "setuptools", "wheel"], check=True), in
\* the working directory of the process at that moment; CalledProcessError
\* is caught and logged.
build_pip(task, wd, exit) ==
  [task EXCEPT !.steps = Append(@, [cmd |-> "pip", cwd |-> wd, exit |-> exit]),
               !.pc = IF exit = 0 THEN "setup" ELSE "done",
               !.log = IF exit = 0 THEN @ ELSE Append(@, "failed")]

\* subprocess.run(["python", "setup.py", "sdist", "bdist_wheel"], check=True)
\* and the log line that follows it.
build_setup(task, wd, run) ==
  [task EXCEPT !.steps = Append(@, [cmd |-> "setup.py", cwd |-> wd, exit |-> run.exit]),
               !.added = @ \cup run.written,
               !.pc = "done",
               !.log = Append(@, IF run.exit = 0 THEN "completed" ELSE "failed")]

\* ------------------------------------------------------------ RepositoryIndex

RECURSIVE SetToSeq(_)
SetToSeq(S) ==
  IF S = {} THEN <<>>
  ELSE LET x == CHOOSE y \in S : TRUE IN <<x>> \o SetToSeq(S \ {x})

NoRead == [op |-> "none", project |-> "", file_path |-> <<>>, status |-> 0,
           links |-> <<>>, served |-> <<>>]

\* GET /simple/ : one link per subdirectory of /mnt/data.
list_projects(fs, ds) ==
  LET projects == SetToSeq({d \in ListDir(fs, ds, DataRoot) : Append(DataRoot, d) \in ds})
  IN [NoRead EXCEPT !.op = "list_projects", !.status = 200,
        !.links = [i \in 1..Len(projects) |->
                     [href |-> <<"simple", projects[i]>>, text |-> projects[i]]]]

list_project_files_of_project_dir(project, fs, ds) ==
  LET project_dir == Join(DataRoot, <<project>>)
      listing == SetToSeq(ListDir(fs, ds, project_dir))
  IN IF ~Exists(fs, ds, project_dir)
     THEN [NoRead EXCEPT !.op = "list_project_files", !.project = project, !.status = 404]
     ELSE [NoRead EXCEPT !.op = "list_project_files", !.project = project, !.status = 200,
             !.links = [i \in 1..Len(listing) |->
                          [href |-> <<"data", project, "dist", listing[i]>>,
                           text |-> listing[i]]]]

\* GET /simple/{project}/ : 404 unless /mnt/data/<project>/dist exists, else
\* one link per name that os.listdir returns (in an order the model fixes).
list_project_files(project, fs, ds) ==
  LET project_dir == Join(DataRoot, <<project, "dist">>)
      listing == SetToSeq(ListDir(fs, ds, project_dir))
  IN IF ~Exists(fs, ds, project_dir)
     THEN [NoRead EXCEPT !.op = "list_project_files", !.project = project, !.status = 404]
     ELSE [NoRead EXCEPT !.op = "list_project_files", !.project = project, !.status = 200,
             !.links = [i \in 1..Len(listing) |->
                          [href |-> <<"data", project, "dist", listing[i]>>,
                           text |-> listing[i]]]]

\* GET /data/{project}/dist/{file_path:path} : the joined path is handed to
\* os.path.exists and to FileResponse as it is; FileResponse refuses a
\* directory (500).  served is the canonical path of the file streamed.
serve_file(project, file_path, fs, ds) ==
  LET full_path == Join(Join(DataRoot, <<project, "dist">>), file_path)
      found == Walk(fs, ds, Root, full_path)
      r == [NoRead EXCEPT !.op = "serve_file", !.project = project,
                          !.file_path = file_path]
  IN IF ~found.ok THEN [r EXCEPT !.status = 404]
     ELSE IF found.path \in DOMAIN fs
          THEN [r EXCEPT !.status = 200, !.served = found.path]
          ELSE [r EXCEPT !.status = 500]

\* The file_path values that clients request.
FilePaths ==
  {<<"p.whl">>, <<"missing.whl">>,
   <<"..", "setup.py">>,
   <<"..", "..", "q", "dist", "q.whl">>,
   <<"..", "..", "..", "..", "etc", "passwd">>}

\* ------------------------------------------------------------------ actions

RequestIds == 1..MaxRequests

NoMetadata == Metadata("", 1)

\* istatus and page hold the index's answer while it is in flight to the
\* handler (ResolveSpec); resolved is what get_pypi_source_url made of it;
\* dstatus is the download server's status; status is the handler's own.
IdleReq == [pc |-> "idle", id |-> 0, metadata |-> NoMetadata, istatus |-> 0,
            page |-> <<>>, resolved |-> ResolveNotFound, dstatus |-> 0, status |-> 0]

Init ==
  /\ files = [x \in {<<"etc", "passwd">>} |-> << <<"secret">> >>]
  /\ dirs = {Root, <<"etc">>, <<"mnt">>, DataRoot}
  /\ cwd = Root
  /\ nreq = 0
  /\ req = IdleReq
  /\ responses = [i \in RequestIds |-> 0]
  /\ tasks = [i \in RequestIds |-> NoTask]
  /\ last = NoRead

\* POST /compile-wheel arrives; the handler is a coroutine without an await,
\* so the event loop runs one such request at a time.
\* os.makedirs(project_dir, exist_ok=True)
ReceiveCompileWheel(metadata) ==
  /\ req.pc = "idle"
  /\ nreq < MaxRequests
  /\ nreq' = nreq + 1
  /\ dirs' = MakeDirs(dirs, ProjectDir(metadata.name))
  /\ req' = [IdleReq EXCEPT !.pc = "resolve", !.id = nreq + 1, !.metadata = metadata]
  /\ last' = NoRead
  /\ UNCHANGED <<files, cwd, responses, tasks>>

\* What get_pypi_source_url makes of the answers the index can give.
ResolveOutcomes == {get_pypi_source_url(s, page) : s \in IndexStatuses, page \in Pages}

\* source_url = get_pypi_source_url(metadata.name), with outcome r: the URL
\* found, or the exception that ends the handler.
Resolve(r) ==
  /\ req.pc = "resolve"
  /\ req' = [req EXCEPT !.pc = IF r.ok THEN "download" ELSE "error",
                        !.resolved = r, !.status = r.status]
  /\ last' = NoRead
  /\ UNCHANGED <<files, dirs, cwd, nreq, responses, tasks>>

\* download_source(source_url, project_dir): the server answers with a status
\* and an archive.
Download(status, archive) ==
  /\ req.pc = "download"
  /\ LET d == download_source(req.resolved.url, ProjectDir(req.metadata.name),
                              status, archive, files, dirs)
     IN /\ files' = d.files
        /\ dirs' = d.dirs
        /\ req' = [req EXCEPT !.pc = IF d.ok THEN "scaffold" ELSE "error",
                              !.dstatus = status, !.status = d.status]
  /\ last' = NoRead
  /\ UNCHANGED <<cwd, nreq, responses, tasks>>

\* The README.md and setup.py steps of compile_wheel.
Scaffold ==
  /\ req.pc = "scaffold"
  /\ files' = scaffold(ProjectDir(req.metadata.name), req.metadata, req.resolved.url,
                       files, dirs)
  /\ req' = [req EXCEPT !.pc = "add_task"]
  /\ last' = NoRead
  /\ UNCHANGED <<dirs, cwd, nreq, responses, tasks>>

\* background_tasks.add_task(...); return {"message": ..., "project_dir": ...}
AddTaskAndReturn ==
  /\ req.pc = "add_task"
  /\ tasks' = add_task(tasks, req.id, ProjectDir(req.metadata.name))
  /\ req' = [req EXCEPT !.pc = "respond", !.status = 200]
  /\ last' = NoRead
  /\ UNCHANGED <<files, dirs, cwd, nreq, responses>>

\* The framework sends the handler's response, or the error response of the
\* exception it raised; the request's background tasks run after that.
SendResponse ==
  /\ req.pc \in {"respond", "error"}
  /\ responses' = [responses EXCEPT ![req.id] = req.status]
  /\ req' = IdleReq
  /\ last' = NoRead
  /\ UNCHANGED <<files, dirs, cwd, nreq, tasks>>

\* compile_and_build starts on a worker thread: os.chdir(project_dir).
StartBuild(t) ==
  /\ tasks[t].pc = "queued"
  /\ responses[t] # 0
  /\ cwd' = tasks[t].dir
  /\ tasks' = [tasks EXCEPT ![t] = build_start(@)]
  /\ last' = NoRead
  /\ UNCHANGED <<files, dirs, nreq, req, responses>>

\* The pip step: the child process starts in the process's working directory.
PipInstall(t, exit) ==
  /\ tasks[t].pc = "pip"
  /\ tasks' = [tasks EXCEPT ![t] = build_pip(@, cwd, exit)]
  /\ last' = NoRead
  /\ UNCHANGED <<files, dirs, cwd, nreq, req, responses>>

\* The setup.py step, likewise in the process's working directory.
SetupPy(t, outcome) ==
  /\ tasks[t].pc = "setup"
  /\ LET run == RunSetupPy(cwd, outcome, files, dirs)
     IN /\ files' = run.files
        /\ dirs' = run.dirs
        /\ tasks' = [tasks EXCEPT ![t] = build_setup(@, cwd, run)]
  /\ last' = NoRead
  /\ UNCHANGED <<cwd, nreq, req, responses>>

\* The read endpoints are coroutines too: they run while no compile-wheel
\* handler is on the event loop.
ListProjects ==
  /\ req.pc = "idle"
  /\ last' = list_projects(files, dirs)
  /\ UNCHANGED <<files, dirs, cwd, nreq, req, responses, tasks>>

ListProjectFiles(project) ==
  /\ req.pc = "idle"
  /\ last' = list_project_files(project, files, dirs)
  /\ UNCHANGED <<files, dirs, cwd, nreq, req, responses, tasks>>

ServeFile(project, file_path) ==
  /\ req.pc = "idle"
  /\ last' = serve_file(project, file_path, files, dirs)
  /\ UNCHANGED <<files, dirs, cwd, nreq, req, responses, tasks>>

\* The write path: the compile-wheel handler and the build tasks.
WriteNext ==
  \/ \E m \in Metadatas : ReceiveCompileWheel(m)
  \/ \E r \in ResolveOutcomes : Resolve(r)
  \/ \E s \in DownloadStatuses, a \in Archives : Download(s, a)
  \/ Scaffold
  \/ AddTaskAndReturn
  \/ SendResponse
  \/ \E t \in RequestIds : StartBuild(t)
  \/ \E t \in RequestIds, e \in {0, 1} : PipInstall(t, e)
  \/ \E t \in RequestIds, o \in SetupOutcomes : SetupPy(t, o)

\* The read endpoints.
ReadNext ==
  \/ ListProjects
  \/ \E p \in Projects : ListProjectFiles(p)
  \/ \E p \in Projects, f \in FilePaths : ServeFile(p, f)

Next == WriteNext \/ ReadNext

Spec == Init /\ [][Next]_vars

\* The write path alone: the read endpoints change nothing but last.
WriteSpec == Init /\ [][WriteNext]_vars

\* The write path and the artifact listing.
ListNext == WriteNext \/ \E p \in Projects : ListProjectFiles(p)

ListSpec == Init /\ [][ListNext]_vars

\* The resolver alone.  A request waits for the index; the index's answer,
\* a status and a page, is in flight to it.
ResolveInit ==
  /\ files = [x \in {<<"etc", "passwd">>} |-> << <<"secret">> >>]
  /\ dirs = MakeDirs({Root, <<"etc">>, <<"mnt">>, DataRoot}, ProjectDir("p"))
  /\ cwd = Root
  /\ nreq = 1
  /\ req \in {[IdleReq EXCEPT !.pc = "resolve", !.id = 1, !.metadata = Metadata("p", 1),
                              !.istatus = s, !.page = page] :
                s \in IndexStatuses, page \in Pages}
  /\ responses = [i \in RequestIds |-> 0]
  /\ tasks = [i \in RequestIds |-> NoTask]
  /\ last = NoRead

\* The answer arrives: get_pypi_source_url runs on it.
ResolveArrived == Resolve(get_pypi_source_url(req.istatus, req.page))

ResolveNext ==
  \/ ResolveArrived
  \/ \E s \in DownloadStatuses, a \in Archives : Download(s, a)
  \/ Scaffold
  \/ AddTaskAndReturn
  \/ SendResponse

ResolveSpec == ResolveInit /\ [][ResolveNext]_vars

\* The write path with the scheduling the code relies on: the handler's
\* straight-line steps run to its return, the framework sends the response,
\* and the worker pool (more threads than MaxRequests) starts a queued task.
LiveSpec ==
  /\ WriteSpec
  /\ WF_vars(Scaffold)
  /\ WF_vars(AddTaskAndReturn)
  /\ WF_vars(SendResponse)
  /\ \A t \in RequestIds : WF_vars(StartBuild(t))

\* ------------------------------------------------------------------- claims

DistDir(project) == Join(DataRoot, <<project, "dist">>)

\* os.path.normpath of an absolute path: the lexical meaning of its ".."s.
RECURSIVE Normalize(_, _)
Normalize(done, rest) ==
  IF rest = <<>> THEN done
  ELSE Normalize(IF Head(rest) = ".." THEN Parent(done) ELSE Append(done, Head(rest)),
                 Tail(rest))

HasDotDot(path) == \E i \in 1..Len(path) : path[i] = ".."

\* A traversal request: its file_path has a ".." segment and the joined path
\* names a place outside the project's dist directory.
IsTraversal(project, file_path) ==
  /\ HasDotDot(file_path)
  /\ ~IsPrefix(DistDir(project), Normalize(<<>>, Join(DistDir(project), file_path)))

\* C1: a path-traversal request to serve_file fails: it never answers 200
\* with a file, and in particular never with one outside <project>/dist.
C1_TraversalFails ==
  (last.op = "serve_file" /\ IsTraversal(last.project, last.file_path))
    => (last.status = 404 /\ last.served = <<>>)

Matches(anchor) ==
  anchor # <<>> /\ (EndsWith(anchor[1], TarGzSuffix) \/ EndsWith(anchor[1], ZipSuffix))

MatchingAnchors(page) == {i \in 1..Len(page) : Matches(page[i])}

FirstMatch(page) ==
  page[CHOOSE i \in MatchingAnchors(page) : \A j \in MatchingAnchors(page) : i <= j][1]

Resolved == req.id = 1 /\ req.pc # "resolve"

\* C2: on a 200 page with at least one anchor whose href ends in .tar.gz or
\* .zip, resolve returns the first such href in document order, also when
\* earlier anchors do not match or have no href; otherwise it fails with 404.
C2_ResolveFirstMatch ==
  Resolved =>
    IF req.istatus = 200 /\ MatchingAnchors(req.page) # {}
    THEN req.resolved.ok /\ req.resolved.url = FirstMatch(req.page)
    ELSE ~req.resolved.ok /\ req.resolved.status = 404

ScaffoldStep == req.pc = "scaffold" /\ req'.pc = "add_task"

MatchingUrls == {h \in Hrefs : Matches(<<h>>)}

\* C3: the scaffold step leaves a README.md and a setup.py that exist before
\* it unchanged, and a second scaffold run right after it, with any metadata
\* and any source_url, leaves every file byte-identical.
C3_ScaffoldIdempotent ==
  [][ScaffoldStep =>
       LET dir == ProjectDir(req.metadata.name)
       IN /\ \A f \in {ReadmePath(dir), SetupPath(dir)} :
               f \in DOMAIN files => files'[f] = files[f]
          /\ {ReadmePath(dir), SetupPath(dir)} \subseteq DOMAIN files'
          /\ \A m \in Metadatas, u \in MatchingUrls :
               scaffold(dir, m, u, files', dirs') = files']_vars

\* C3 witness: a scaffold run has just ended in a directory whose README.md
\* and setup.py an earlier run wrote from other metadata.
C3_Witness ==
  /\ req.pc = "add_task"
  /\ LET dir == ProjectDir(req.metadata.name)
     IN /\ files[ReadmePath(dir)] # ReadmeContent(req.metadata)
        /\ files[ReadmePath(dir)] # ArchiveText
        /\ files[SetupPath(dir)] # SetupContent(req.metadata, req.resolved.url)
        /\ files[SetupPath(dir)] # ArchiveText

\* The names directly under a directory, read off the tree.
Entries(dir) ==
  {x[Len(x)] : x \in {y \in (DOMAIN files) \cup dirs :
                        Len(y) = Len(dir) + 1 /\ IsPrefix(dir, y)}}

DownloadStep == req.pc = "download" /\ req'.pc # "download"

\* C5: when the download's status is not 200, download_source fails with
\* that status and creates no file and no directory.
C5_FetchFailureLeavesDir ==
  [][(DownloadStep /\ req'.dstatus # 200) =>
       /\ req'.pc = "error"
       /\ req'.status = req'.dstatus
       /\ files' = files
       /\ dirs' = dirs]_vars

\* C5 witness: a request whose download was answered 503.
C5_Witness ==
  req.pc = "error" /\ req.resolved.ok /\ req.dstatus = 503 /\ req.status = 503

Started(t) == tasks[t].pc \in {"pip", "setup", "done"}

\* C6: a request whose resolve and fetch succeeded schedules exactly one
\* build task, for its project_dir; the task has not started when the 200
\* response is produced, so no task runs or completes before its request's
\* response; and the task is eventually started.
C6_ResponseBeforeBuild ==
  /\ [](req.pc = "respond" =>
          /\ req.status = 200
          /\ tasks[req.id].n = 1
          /\ tasks[req.id].pc = "queued"
          /\ tasks[req.id].dir = ProjectDir(req.metadata.name))
  /\ [](\A t \in RequestIds :
          /\ tasks[t].n <= 1
          /\ Started(t) => responses[t] = 200)
  /\ \A t \in RequestIds : (req.pc = "scaffold" /\ req.id = t) ~> Started(t)

\* C6 witness: the 200 response of a request is out while its build runs.
C6_Witness ==
  \E t \in RequestIds : responses[t] = 200 /\ tasks[t].pc = "setup"

HandlerStep == req' # req

\* C7: a request whose setup phase fails answers 404 when resolve failed and
\* the upstream status when the download failed, and it writes no file and
\* schedules no build task, neither before the error nor after it.
C7_SetupFailureAborts ==
  [][/\ (req'.pc = "error" /\ req.pc # "error") =>
          /\ ~req'.resolved.ok => req'.status = 404
          /\ req'.resolved.ok => req'.status = req'.dstatus
          /\ files' = files
          /\ tasks' = tasks
     /\ (req.pc = "error" /\ HandlerStep) =>
          /\ responses'[req.id] = req.status
          /\ files' = files
          /\ tasks' = tasks
          /\ tasks[req.id] = NoTask]_vars

Running(t) == tasks[t].pc \in {"pip", "setup"}

\* C8: at most one build task per project runs at a time, and no request
\* extracts into a project's directory while a build of that project runs.
C8_OneBuildPerProject ==
  /\ \A t1, t2 \in RequestIds :
       (t1 # t2 /\ Running(t1) /\ Running(t2)) => tasks[t1].dir # tasks[t2].dir
  /\ \A t \in RequestIds :
       (Running(t) /\ req.pc \in {"scaffold", "add_task", "respond"})
         => tasks[t].dir # ProjectDir(req.metadata.name)

\* C9: both commands of a build task run with the working directory equal to
\* the task's project_dir, and what the task adds lands under its dist.
C9_BuildInOwnDir ==
  \A t \in RequestIds :
    /\ \A i \in 1..Len(tasks[t].steps) : tasks[t].steps[i].cwd = tasks[t].dir
    /\ \A f \in tasks[t].added : IsPrefix(Join(tasks[t].dir, <<"dist">>), f)

\* What C10 says of the order of the steps and of a failure, artifacts aside:
\* pip runs first and once, setup.py runs once and only after pip exited 0,
\* a nonzero exit is the task's last step and is logged, nothing propagates,
\* and the request's response stays what it was.
StepsInOrderAndContained(t) ==
  LET steps == tasks[t].steps
  IN /\ Len(steps) <= 2
     /\ Len(steps) >= 1 => steps[1].cmd = "pip"
     /\ Len(steps) = 2 => steps[1].exit = 0 /\ steps[2].cmd = "setup.py"
     /\ tasks[t].pc = "setup" => Len(steps) = 1 /\ steps[1].exit = 0
     /\ \A i \in 1..Len(steps) :
          steps[i].exit # 0 =>
            /\ i = Len(steps)
            /\ tasks[t].pc = "done"
            /\ tasks[t].log = <<"starting", "failed">>
     /\ ~tasks[t].raised
     /\ Started(t) => responses[t] = 200

Failed(t) == \E i \in 1..Len(tasks[t].steps) : tasks[t].steps[i].exit # 0

====
